---- MODULE Spec2Model ----
(***************************************************************************)
(* A model of the tiny MNA solver (src/bin/tiny_qucsator.py: solve, main)  *)
(* and of the result decoder (src/backend/main.py: parse_qucs_dat).        *)
(*                                                                         *)
(* One run of the pipeline is: parse the netlist, build the node map,      *)
(* stamp every component, eliminate forward, substitute backward, re-read  *)
(* the sweep parameters, write the result text, decode the result text.    *)
(*                                                                         *)
(* Numbers.  Python floats are modelled as exact decimal-scaled rationals  *)
(* <<n, d, e>> standing for (n/d) * 10^e, kept in a canonical form.  The   *)
(* arithmetic is exact, so rounding of the binary floating point is not    *)
(* modelled; the two comparisons against 1e-12 and the seven-digit "%e"    *)
(* formatting are modelled as the code performs them.                      *)
(***************************************************************************)
EXTENDS Integers, Sequences, FiniteSets, TLC

(***************************************************************************)
(* Exact numbers                                                           *)
(***************************************************************************)
Abs(v) == IF v < 0 THEN -v ELSE v

RECURSIVE GCD(_, _)
GCD(p, q) == IF q = 0 THEN p ELSE GCD(q, p % q)

RECURSIVE Pow10(_)
Pow10(k) == IF k = 0 THEN 1 ELSE 10 * Pow10(k - 1)

Zero == <<0, 1, 0>>

\* move the factors 2 and 5 of the denominator into the decimal exponent
RECURSIVE Coprime10(_, _, _)
Coprime10(n, d, e) ==
    IF d % 2 = 0 THEN Coprime10(n * 5, d \div 2, e - 1)
    ELSE IF d % 5 = 0 THEN Coprime10(n * 2, d \div 5, e - 1)
    ELSE <<n, d, e>>

\* move the factors 10 of the numerator into the decimal exponent
RECURSIVE Strip10(_, _, _)
Strip10(n, d, e) ==
    IF n % 10 = 0 THEN Strip10(n \div 10, d, e + 1) ELSE <<n, d, e>>

\* the canonical form of (n/d) * 10^e, d # 0
Norm(n, d, e) ==
    IF n = 0 THEN Zero
    ELSE LET s  == IF d < 0 THEN -1 ELSE 1
             g  == GCD(Abs(n), Abs(d))
             c  == Coprime10((s * n) \div g, Abs(d) \div g, e)
         IN  Strip10(c[1], c[2], c[3])

FromInt(i) == Norm(i, 1, 0)

Neg(p) == <<-p[1], p[2], p[3]>>

Add(p, q) ==
    IF p[1] = 0 THEN q
    ELSE IF q[1] = 0 THEN p
    ELSE LET e == IF p[3] < q[3] THEN p[3] ELSE q[3]
         IN  Norm(p[1] * Pow10(p[3] - e) * q[2] + q[1] * Pow10(q[3] - e) * p[2],
                  p[2] * q[2], e)

Sub(p, q) == Add(p, Neg(q))

Mul(p, q) == Norm(p[1] * q[1], p[2] * q[2], p[3] + q[3])

\* p / q for q # 0
Div(p, q) == Norm(p[1] * q[2], p[2] * q[1], p[3] - q[3])

\* n * 10^k < d, for n >= 0 and d > 0, without forming 10^k
RECURSIVE ScaledLess(_, _, _)
ScaledLess(n, d, k) ==
    IF k = 0 THEN n < d
    ELSE IF k > 0 THEN ScaledLess(n, (d + 9) \div 10, k - 1)
    ELSE ScaledLess(n \div 10, d, k + 1)

\* n * 10^k > d, for n >= 0 and d > 0, without forming 10^k
RECURSIVE ScaledMore(_, _, _)
ScaledMore(n, d, k) ==
    IF k = 0 THEN n > d
    ELSE IF k > 0 THEN ScaledMore(n, d \div 10, k - 1)
    ELSE ScaledMore((n + 9) \div 10, d, k + 1)

\* the exponent of the pivot tolerance 1e-12
TolExp == 12

\* abs(p) < 1e-12
BelowTol(p) == ScaledLess(Abs(p[1]), p[2], p[3] + TolExp)

\* abs(p) > 1e-12
AboveTol(p) == ScaledMore(Abs(p[1]), p[2], p[3] + TolExp)

(***************************************************************************)
(* The "%e" text of a number (f"{v:e}") and its reading back (float)       *)
(***************************************************************************)
\* the digits the formatter keeps: one before the point, six after
SigDigits == 7

RECURSIVE NumDigits(_)
NumDigits(i) == IF i < 10 THEN 1 ELSE 1 + NumDigits(i \div 10)

\* skip the leading zeros of r/d (0 < r < d): <<remainder, zeros skipped>>
RECURSIVE Lead(_, _, _)
Lead(r, d, z) == IF r * 10 >= d THEN <<r, z>> ELSE Lead(r * 10, d, z + 1)

\* cnt more digits of the long division r/d appended to acc: <<digits, remainder>>
RECURSIVE Take(_, _, _, _)
Take(r, d, cnt, acc) ==
    IF cnt = 0 THEN <<acc, r>>
    ELSE Take((r * 10) % d, d, cnt - 1, acc * 10 + ((r * 10) \div d))

\* round half to even: m digits kept, rest/unit is the fraction dropped
RoundEven(m, rest, unit) ==
    IF 2 * rest > unit \/ (2 * rest = unit /\ m % 2 = 1) THEN m + 1 ELSE m

\* the text "[-]m.mmmmmme[+-]xx" as <<negative, the seven digits, exponent>>
FormatE(p) ==
    IF p[1] = 0 THEN <<FALSE, 0, 0>>
    ELSE
      LET a  == Abs(p[1])
          d  == p[2]
          ip == a \div d
          L  == NumDigits(ip)
          raw ==
            IF ip = 0
            THEN LET ld == Lead(a, d, 0)
                     tk == Take(ld[1], d, SigDigits, 0)
                 IN  <<RoundEven(tk[1], tk[2], d), -(ld[2] + 1)>>
            ELSE IF L <= SigDigits
            THEN LET tk == Take(a % d, d, SigDigits - L, ip)
                 IN  <<RoundEven(tk[1], tk[2], d), L - 1>>
            ELSE LET u  == Pow10(L - SigDigits)
                     m  == ip \div u
                     up == \/ 2 * (ip % u) > u
                           \/ 2 * (ip % u) = u /\ (a % d # 0 \/ m % 2 = 1)
                 IN  <<IF up THEN m + 1 ELSE m, L - 1>>
          top == Pow10(SigDigits)
      IN  IF raw[1] = top
          THEN <<p[1] < 0, top \div 10, raw[2] + 1 + p[3]>>
          ELSE <<p[1] < 0, raw[1], raw[2] + p[3]>>

\* float(text) of a text FormatE wrote
ParseFloat(t) == Norm(IF t[1] THEN -t[2] ELSE t[2], 1, t[3] - (SigDigits - 1))

(***************************************************************************)
(* Strings: code points (for sorted() and for the regex class \w) and the  *)
(* numeric literals float() and int() read                                 *)
(***************************************************************************)
\* the code points of the tokens the netlists of this model are made of
Codes(s) ==
    CASE s = "0"     -> <<48>>
      [] s = "B"     -> <<66>>
      [] s = "a"     -> <<97>>
      [] s = "b"     -> <<98>>
      [] s = "gnd"   -> <<103, 110, 100>>
      [] s = "n-1"   -> <<110, 45, 49>>
      [] s = "sweep" -> <<115, 119, 101, 101, 112>>
      [] s = "V1"    -> <<86, 49>>

\* Python's s < t on str: lexicographic on code points
RECURSIVE SeqLess(_, _)
SeqLess(u, v) ==
    IF v = <<>> THEN FALSE
    ELSE IF u = <<>> THEN TRUE
    ELSE IF u[1] # v[1] THEN u[1] < v[1]
    ELSE SeqLess(Tail(u), Tail(v))

StrLess(s, t) == SeqLess(Codes(s), Codes(t))

\* the regex class \w on ASCII: digits, letters and the underscore
WordChar(c) ==
    \/ c \in 48..57
    \/ c \in 65..90
    \/ c \in 97..122
    \/ c = 95

\* the text is matched in full by \w+
IsWordCodes(cs) == cs # <<>> /\ \A i \in 1..Len(cs) : WordChar(cs[i])

\* float(s) of a numeric literal
FloatOf(s) ==
    CASE s = "0"    -> Zero
      [] s = "1"    -> FromInt(1)
      [] s = "2"    -> FromInt(2)
      [] s = "3"    -> FromInt(3)
      [] s = "4"    -> FromInt(4)
      [] s = "5"    -> FromInt(5)
      [] s = "10"   -> FromInt(10)
      [] s = "-1"   -> FromInt(-1)
      [] s = "1000" -> FromInt(1000)
      [] s = "3000" -> FromInt(3000)
      [] s = "2e12" -> <<2, 1, 12>>
      [] s = "4e12" -> <<4, 1, 12>>
      [] s = "2e-13" -> <<2, 1, -13>>

\* int(s) of an integer literal
IntOf(s) ==
    CASE s = "0"  -> 0
      [] s = "1"  -> 1
      [] s = "2"  -> 2
      [] s = "3"  -> 3
      [] s = "4"  -> 4
      [] s = "-1" -> -1

\* str(i): the code points of the decimal text of an int
RECURSIVE DigitCodes(_)
DigitCodes(i) ==
    IF i < 10 THEN <<48 + i>> ELSE Append(DigitCodes(i \div 10), 48 + (i % 10))

IntCodes(i) == IF i < 0 THEN <<45>> \o DigitCodes(-i) ELSE DigitCodes(i)

(***************************************************************************)
(* Netlist lines.  A line is given as what line.split() and the regex      *)
(* (\w+)="([^"]+)" make of it:                                             *)
(*   head  - the first token split on ":" (<<>> for a blank line)          *)
(*   nodes - the tokens after the first, up to the first one with an "="   *)
(*   kv    - the key="value" matches of the line, in order                 *)
(***************************************************************************)
Line(head, nodes, kv) == [head |-> head, nodes |-> nodes, kv |-> kv]

ParamKeys == {"R", "U", "Start", "Stop", "Points", "Param"}

\* the value of a key no match gave (a match's value is never empty)
NoVal == ""

\* params[m.group(1)] = m.group(2) over the matches: the last match of a key wins
RECURSIVE ParamsOf(_)
ParamsOf(kv) ==
    IF kv = <<>> THEN [k \in ParamKeys |-> NoVal]
    ELSE LET m == kv[Len(kv)]
         IN  [ParamsOf(SubSeq(kv, 1, Len(kv) - 1)) EXCEPT ![m[1]] = m[2]]

\* dict.get(key, default)
Get(params, key, default) ==
    IF params[key] = NoVal THEN default ELSE params[key]

\* not line or line.startswith('#')
IsSkipped(line) == line.head = <<>> \/ line.head[1] = "#"

\* type_id.startswith('.DC')
IsDC(line) == ~IsSkipped(line) /\ line.head[1] = ".DC"

\* ':' in type_id, after the two tests above
IsComponent(line) == ~IsSkipped(line) /\ ~IsDC(line) /\ Len(line.head) > 1

\* the dict appended to components
ComponentOf(line) ==
    [type |-> line.head[1], name |-> line.head[2],
     nodes |-> line.nodes, params |-> ParamsOf(line.kv)]

Range(f) == {f[i] : i \in DOMAIN f}

\* the for loop of solve over the lines: <<nodes, components, sim_cmd>>
RECURSIVE ParseLines(_)
ParseLines(lines) ==
    IF lines = <<>> THEN <<{}, <<>>, <<>>>>
    ELSE LET before == ParseLines(SubSeq(lines, 1, Len(lines) - 1))
             line   == lines[Len(lines)]
         IN  IF IsSkipped(line) THEN before
             ELSE IF IsDC(line)
             THEN <<before[1], before[2], <<ParamsOf(line.kv)>>>>
             ELSE IF ~IsComponent(line) THEN before
             ELSE <<before[1] \cup Range(line.nodes),
                    Append(before[2], ComponentOf(line)),
                    before[3]>>

(***************************************************************************)
(* The node map                                                            *)
(***************************************************************************)
\* insert s into the ascending sequence sq
RECURSIVE Insert(_, _)
Insert(sq, s) ==
    IF sq = <<>> THEN <<s>>
    ELSE IF StrLess(s, sq[1]) THEN <<s>> \o sq
    ELSE <<sq[1]>> \o Insert(Tail(sq), s)

\* sorted(list): ascending by StrLess
RECURSIVE Sorted(_)
Sorted(sq) ==
    IF sq = <<>> THEN <<>> ELSE Insert(Sorted(SubSeq(sq, 1, Len(sq) - 1)), sq[Len(sq)])

\* if s in sq: sq.remove(s)   (the first occurrence)
RECURSIVE Remove(_, _)
Remove(sq, s) ==
    IF sq = <<>> THEN <<>>
    ELSE IF sq[1] = s THEN Tail(sq)
    ELSE <<sq[1]>> \o Remove(Tail(sq), s)

\* the node list with sorted() left out
SortedNodesUnsorted(listed) == Remove(Remove(listed, "0"), "gnd")

\* lines 62-64: the sorted free nodes, from list(nodes) in some iteration order
SortedNodes(listed) == Remove(Remove(Sorted(listed), "0"), "gnd")

\* {n: i for i, n in enumerate(sorted_nodes)}
NodeMapOf(sorted_nodes) ==
    [n \in Range(sorted_nodes) |->
        CHOOSE i \in 0..(Len(sorted_nodes) - 1) : sorted_nodes[i + 1] = n]

\* the orders list(a set) may come in (the iteration order of a set of str)
RECURSIVE ListsOf(_)
ListsOf(S) ==
    IF S = {} THEN {<<>>}
    ELSE UNION {{<<s>> \o sq : sq \in ListsOf(S \ {s})} : s \in S}

(***************************************************************************)
(* MNA assembly: the stamps                                                *)
(***************************************************************************)
IsRef(n) == n = "0" \/ n = "gnd"

\* nis: -1 for a reference node, the node's index otherwise
NodeIndices(c, node_map) ==
    [i \in 1..Len(c.nodes) |-> IF IsRef(c.nodes[i]) THEN -1 ELSE node_map[c.nodes[i]]]

\* vsources = [c for c in components if c['type'] == 'Vdc']
RECURSIVE VSources(_)
VSources(components) ==
    IF components = <<>> THEN <<>>
    ELSE LET before == VSources(SubSeq(components, 1, Len(components) - 1))
             c      == components[Len(components)]
         IN  IF c.type = "Vdc" THEN Append(before, c) ELSE before

\* vsources.index(c): the position of the first element equal to c
VsIndex(vsources, c) ==
    (CHOOSE k \in 1..Len(vsources) :
        /\ vsources[k] = c
        /\ \A j \in 1..(k - 1) : vsources[j] # c) - 1

\* [[0.0] * size for _ in range(size)] and [0.0] * size
ZeroMatrix(size) == [i \in 0..(size - 1) |-> [j \in 0..(size - 1) |-> Zero]]
ZeroVector(size) == [i \in 0..(size - 1) |-> Zero]

\* M[i][j] += v
AddAt(M, i, j, v) == [M EXCEPT ![i][j] = Add(@, v)]

\* the R stamp with the update of G[n2][n1] left out
StampROneSided(G, n1, n2, g_val) ==
    LET G1 == IF n1 >= 0 THEN AddAt(G, n1, n1, g_val) ELSE G
        G2 == IF n2 >= 0 THEN AddAt(G1, n2, n2, g_val) ELSE G1
        G3 == IF n1 >= 0 /\ n2 >= 0 THEN AddAt(G2, n1, n2, Neg(g_val)) ELSE G2
    IN  G3

\* the R stamp, lines 93-97
StampR(G, n1, n2, g_val) ==
    LET G1 == IF n1 >= 0 THEN AddAt(G, n1, n1, g_val) ELSE G
        G2 == IF n2 >= 0 THEN AddAt(G1, n2, n2, g_val) ELSE G1
        G3 == IF n1 >= 0 /\ n2 >= 0 THEN AddAt(G2, n1, n2, Neg(g_val)) ELSE G2
        G4 == IF n1 >= 0 /\ n2 >= 0 THEN AddAt(G3, n2, n1, Neg(g_val)) ELSE G3
    IN  G4

\* the Vdc stamp on G, lines 107-112
StampV(G, n1, n2, v_idx) ==
    LET G1 == IF n1 >= 0 THEN AddAt(G, n1, v_idx, FromInt(1)) ELSE G
        G2 == IF n1 >= 0 THEN AddAt(G1, v_idx, n1, FromInt(1)) ELSE G1
        G3 == IF n2 >= 0 THEN AddAt(G2, n2, v_idx, FromInt(-1)) ELSE G2
        G4 == IF n2 >= 0 THEN AddAt(G3, v_idx, n2, FromInt(-1)) ELSE G3
    IN  G4

\* the stamping pass with every type but Vdc stamped as a resistor
StampUnknownAsR(G, I, c, node_map, N, vsources) ==
    LET nis == NodeIndices(c, node_map)
    IN  IF c.type # "Vdc"
        THEN LET val == FloatOf(Get(c.params, "R", "1000"))
             IN  IF val = Zero THEN <<G, I, "ZeroDivisionError">>
                 ELSE IF Len(nis) < 2 THEN <<G, I, "IndexError">>
                 ELSE <<StampR(G, nis[1], nis[2], Div(FromInt(1), val)), I, "none">>
        ELSE LET v_idx == N + VsIndex(vsources, c)
                 val   == FloatOf(Get(c.params, "U", "1"))
             IN  IF Len(nis) < 2 THEN <<G, I, "IndexError">>
                 ELSE <<StampV(G, nis[1], nis[2], v_idx),
                        [I EXCEPT ![v_idx] = Add(@, val)], "none">>

\* one pass of the loop "for c in components" (lines 79-114):
\* <<G, I, exception raised or "none">>
Stamp(G, I, c, node_map, N, vsources) ==
    LET nis == NodeIndices(c, node_map)
    IN  IF c.type = "R"
        THEN LET val == FloatOf(Get(c.params, "R", "1000"))
             IN  IF val = Zero THEN <<G, I, "ZeroDivisionError">>
                 ELSE IF Len(nis) < 2 THEN <<G, I, "IndexError">>
                 ELSE <<StampR(G, nis[1], nis[2], Div(FromInt(1), val)), I, "none">>
        ELSE IF c.type = "Vdc"
        THEN LET v_idx == N + VsIndex(vsources, c)
                 val   == FloatOf(Get(c.params, "U", "1"))
             IN  IF Len(nis) < 2 THEN <<G, I, "IndexError">>
                 ELSE <<StampV(G, nis[1], nis[2], v_idx),
                        [I EXCEPT ![v_idx] = Add(@, val)], "none">>
        ELSE <<G, I, "none">>

(***************************************************************************)
(* The solver: forward elimination without pivoting, back substitution     *)
(***************************************************************************)
\* the body of "for i in range(size)" for one i (lines 123-131): <<G, I>>
Eliminate(G, I, i, size) ==
    LET pivot == G[i][i]
    IN  IF BelowTol(pivot) THEN <<G, I>>
        ELSE LET factor(j) == Div(G[j][i], pivot)
             IN  <<[j \in 0..(size - 1) |->
                      IF j > i
                      THEN [k \in 0..(size - 1) |->
                              IF k >= i THEN Sub(G[j][k], Mul(factor(j), G[i][k]))
                              ELSE G[j][k]]
                      ELSE G[j]],
                   [j \in 0..(size - 1) |->
                      IF j > i THEN Sub(I[j], Mul(factor(j), I[i])) ELSE I[j]]>>

\* lines 121-131: the pivots i, i+1, ..., size-1 in turn
RECURSIVE Forward(_, _, _, _)
Forward(G, I, i, size) ==
    IF i >= size THEN <<G, I>>
    ELSE LET e == Eliminate(G, I, i, size)
         IN  Forward(e[1], e[2], i + 1, size)

\* sum(G[i][j] * x[j] for j in range(i + 1, size)), from column j on
RECURSIVE RowSum(_, _, _, _, _)
RowSum(G, x, i, j, size) ==
    IF j >= size THEN Zero
    ELSE Add(Mul(G[i][j], x[j]), RowSum(G, x, i, j + 1, size))

\* back substitution with the sum over the solved unknowns left out
RECURSIVE BackwardNoSum(_, _, _, _, _)
BackwardNoSum(G, I, x, i, size) ==
    IF i < 0 THEN x
    ELSE LET xi == IF AboveTol(G[i][i]) THEN Div(I[i], G[i][i]) ELSE x[i]
         IN  BackwardNoSum(G, I, [x EXCEPT ![i] = xi], i - 1, size)

\* lines 134-137: the rows i, i-1, ..., 0 in turn
RECURSIVE Backward(_, _, _, _, _)
Backward(G, I, x, i, size) ==
    IF i < 0 THEN x
    ELSE LET sum_val == RowSum(G, x, i, i + 1, size)
             xi == IF AboveTol(G[i][i])
                   THEN Div(Sub(I[i], sum_val), G[i][i])
                   ELSE x[i]
         IN  Backward(G, I, [x EXCEPT ![i] = xi], i - 1, size)

(***************************************************************************)
(* main: the sweep parameters and the result text                          *)
(***************************************************************************)
\* sim_params[m.group(1)] = m.group(2) over the matches of one more line
RECURSIVE Merge(_, _)
Merge(params, kv) ==
    IF kv = <<>> THEN params
    ELSE Merge([params EXCEPT ![kv[1][1]] = kv[1][2]], Tail(kv))

\* lines 158-162: the matches of every .DC line, merged into one dict
RECURSIVE SimParams(_)
SimParams(lines) ==
    IF lines = <<>> THEN [k \in ParamKeys |-> NoVal]
    ELSE LET before == SimParams(SubSeq(lines, 1, Len(lines) - 1))
             line   == lines[Len(lines)]
         IN  IF IsDC(line) THEN Merge(before, line.kv) ELSE before

\* a line of the result text: an opening tag with the tokens after its kind,
\* a number, or a closing tag
OpenTag(kind, toks) == [k |-> "open", kind |-> kind, toks |-> toks, num |-> <<>>]
ValueLine(t)        == [k |-> "val", kind |-> "", toks |-> <<>>, num |-> t]
CloseTag(kind)      == [k |-> "close", kind |-> kind, toks |-> <<>>, num |-> <<>>]

\* the step with the span divided by points
StepOfByPoints(start, stop, points) ==
    IF points > 1 THEN Div(Sub(stop, start), FromInt(points)) ELSE Zero

\* step = (stop - start) / (points - 1) if points > 1 else 0
StepOf(start, stop, points) ==
    IF points > 1 THEN Div(Sub(stop, start), FromInt(points - 1)) ELSE Zero

\* for i in range(points): f"{start + i*step:e}"
IndepValues(start, stop, points) ==
    [i \in 1..points |->
        ValueLine(FormatE(Add(start, Mul(FromInt(i - 1), StepOf(start, stop, points)))))]

\* lines 177-182: the indep block
IndepBlock(param, start, stop, points) ==
    <<OpenTag("indep", <<Codes(param), IntCodes(points)>>)>>
    \o IndepValues(start, stop, points)
    \o <<CloseTag("indep")>>

\* lines 186-190: the dep block of one node
DepBlock(node, val, param, points) ==
    <<OpenTag("dep", <<Codes(node), Codes(param)>>)>>
    \o [i \in 1..points |-> ValueLine(FormatE(val))]
    \o <<CloseTag("dep")>>

\* for node, idx in node_map.items(): the dep blocks in the dict's insertion order
RECURSIVE DepBlocks(_, _, _, _, _)
DepBlocks(sorted_nodes, node_map, soln, param, points) ==
    IF sorted_nodes = <<>> THEN <<>>
    ELSE DepBlock(sorted_nodes[1], soln[node_map[sorted_nodes[1]]], param, points)
         \o DepBlocks(Tail(sorted_nodes), node_map, soln, param, points)

\* lines 175-190: the text written to the output file
Encode(sorted_nodes, node_map, soln, param, start, stop, points) ==
    IndepBlock(param, start, stop, points)
    \o DepBlocks(sorted_nodes, node_map, soln, param, points)

(***************************************************************************)
(* parse_qucs_dat: the decoder                                             *)
(***************************************************************************)
\* <((?:in)?dep)\s+(\w+)\s+(\w+)> matches this line
TagMatches(ln) ==
    /\ ln.k = "open"
    /\ ln.kind \in {"indep", "dep"}
    /\ Len(ln.toks) = 2
    /\ IsWordCodes(ln.toks[1])
    /\ IsWordCodes(ln.toks[2])

\* (.*?)</\1> : the first closing tag of that kind from line q on, 0 if none
RECURSIVE FirstClose(_, _, _)
FirstClose(text, kind, q) ==
    IF q > Len(text) THEN 0
    ELSE IF text[q].k = "close" /\ text[q].kind = kind THEN q
    ELSE FirstClose(text, kind, q + 1)

\* the floats among the lines p..q of the text (tags are no floats: skipped)
RECURSIVE ValuesOf(_, _, _)
ValuesOf(text, p, q) ==
    IF p > q THEN <<>>
    ELSE IF text[p].k = "val"
    THEN <<ParseFloat(text[p].num)>> \o ValuesOf(text, p + 1, q)
    ELSE ValuesOf(text, p + 1, q)

\* results[name] = values
Put(results, name, values) ==
    [n \in DOMAIN results \cup {name} |-> IF n = name THEN values ELSE results[n]]

\* for match in block_re.finditer(content), scanning from line p on
RECURSIVE Decode(_, _, _)
Decode(text, p, results) ==
    IF p > Len(text) THEN results
    ELSE IF TagMatches(text[p]) /\ FirstClose(text, text[p].kind, p + 1) # 0
    THEN LET q == FirstClose(text, text[p].kind, p + 1)
         IN  Decode(text, q + 1, Put(results, text[p].toks[1], ValuesOf(text, p + 1, q - 1)))
    ELSE Decode(text, p + 1, results)

\* the empty dict
NoResults == [n \in {} |-> <<>>]

(***************************************************************************)
(* The netlists of the model                                               *)
(***************************************************************************)
\* the longest netlist of Spec, in lines
MaxLines == 3

\* the largest number of .DC lines of a netlist of SpecSweep
MaxDC == 2

\* every sequence of at most n elements of S
RECURSIVE SeqsUpTo(_, _)
SeqsUpTo(S, n) ==
    IF n = 0 THEN {<<>>}
    ELSE LET shorter == SeqsUpTo(S, n - 1)
         IN  shorter \cup {Append(sq, s) : sq \in shorter, s \in S}

\* component lines and a sweep line: two-terminal resistors and sources,
\* terminals on the same node or on the reference, R="0", lines with too few
\* node tokens, and lines of a type the solver has no stamp for
GeneralLines ==
    { Line(<<"R", "R1">>, <<"a", "b">>, <<<<"R", "1000">>>>),
      Line(<<"R", "R2">>, <<"b", "0">>, <<<<"R", "3000">>>>),
      Line(<<"R", "R3">>, <<"B", "B">>, <<>>),
      Line(<<"R", "R4">>, <<"gnd", "0">>, <<<<"R", "0">>>>),
      Line(<<"R", "R5">>, <<"a">>, <<>>),
      Line(<<"Vdc", "V1">>, <<"a", "0">>, <<<<"U", "5">>>>),
      Line(<<"Vdc", "V2">>, <<"n-1", "b">>, <<<<"U", "1">>>>),
      Line(<<"Vdc", "V3">>, <<"0", "gnd">>, <<>>),
      Line(<<"X", "X1">>, <<"B", "a", "b">>, <<>>),
      Line(<<"X", "X2">>, <<>>, <<>>),
      Line(<<"X", "X3">>, <<"B">>, <<>>),
      Line(<<".DC">>, <<>>, <<<<"Start", "1">>, <<"Stop", "4">>, <<"Points", "3">>>>) }

GeneralNetlists == SeqsUpTo(GeneralLines, MaxLines)

\* a source of value u from node a to the reference, a resistor r1 from a to
\* b, and (loaded) a resistor r2 from b to the reference
DividerNetlist(a, b, u, r1, r2, loaded) ==
    <<Line(<<"Vdc", "V1">>, <<a, "0">>, <<<<"U", u>>>>),
      Line(<<"R", "R1">>, <<a, b>>, <<<<"R", r1>>>>)>>
    \o (IF loaded THEN <<Line(<<"R", "R2">>, <<b, "0">>, <<<<"R", r2>>>>)>> ELSE <<>>)

\* resistances of one order of magnitude: ohms to kilo-ohms, above the
\* reciprocal of the pivot tolerance, below the pivot tolerance
ResistanceScales == {{"1", "1000", "3000"}, {"2e12", "4e12"}, {"2e-13"}}

DividerNetlists ==
    {DividerNetlist(a, b, u, r1, r2, loaded) :
        a \in {"a", "b", "B"}, b \in {"a", "b", "B"}, u \in {"5", "1", "-1"},
        r1 \in UNION ResistanceScales, r2 \in UNION ResistanceScales,
        loaded \in BOOLEAN}

\* a .DC line giving the keys whose value is not NoVal
DCLine(sta, sto, pts, par) ==
    Line(<<".DC">>, <<>>,
         (IF sta = NoVal THEN <<>> ELSE <<<<"Start", sta>>>>)
         \o (IF sto = NoVal THEN <<>> ELSE <<<<"Stop", sto>>>>)
         \o (IF pts = NoVal THEN <<>> ELSE <<<<"Points", pts>>>>)
         \o (IF par = NoVal THEN <<>> ELSE <<<<"Param", par>>>>))

DCLines ==
    {DCLine(sta, sto, pts, par) :
        sta \in {NoVal, "1"}, sto \in {NoVal, "4"},
        pts \in {NoVal, "1", "4", "-1"}, par \in {NoVal, "V1"}}

\* a comment, one source, a blank line, one resistor, and up to MaxDC sweep lines
SweepNetlists ==
    {<<Line(<<"#">>, <<>>, <<>>),
       Line(<<"Vdc", "V1">>, <<"a", "0">>, <<<<"U", "5">>>>),
       Line(<<>>, <<>>, <<>>),
       Line(<<"R", "R1">>, <<"a", "0">>, <<>>)>> \o dcs :
        dcs \in SeqsUpTo(DCLines, MaxDC)}

(***************************************************************************)
(* The run of the pipeline                                                 *)
(***************************************************************************)
VARIABLES
    netlist,       \* the lines of the input file
    pc,            \* the step the run is at
    err,           \* the exception that ended the run, "none" if none
    nodes,         \* solve: the set of node tokens
    components,    \* solve: the component dicts, in line order
    sim_cmd,       \* solve: <<>> for None, else <<params of the last .DC line>>
    sorted_nodes,  \* solve: the free nodes, sorted
    node_map,      \* solve: node -> index
    N,             \* solve: the number of free nodes
    M,             \* solve: the number of voltage sources
    G,             \* solve: the matrix
    I,             \* solve: the right-hand side
    ci,            \* solve: the component the stamping loop is at (from 1)
    x,             \* solve: the solution vector
    sim_params,    \* main: the merged .DC parameters
    start,         \* main
    stop,          \* main
    points,        \* main
    out,           \* main: the lines written to the output file
    results        \* parse_qucs_dat: name -> values

vars == <<netlist, pc, err, nodes, components, sim_cmd, sorted_nodes, node_map,
          N, M, G, I, ci, x, sim_params, start, stop, points, out, results>>

solveVars == <<nodes, components, sim_cmd, sorted_nodes, node_map, N, M, G, I, ci, x>>
mainVars  == <<sim_params, start, stop, points, out>>

InitWith(netlists) ==
    /\ netlist \in netlists
    /\ pc = "parse"
    /\ err = "none"
    /\ nodes = {}
    /\ components = <<>>
    /\ sim_cmd = <<>>
    /\ sorted_nodes = <<>>
    /\ node_map = <<>>
    /\ N = 0
    /\ M = 0
    /\ G = <<>>
    /\ I = <<>>
    /\ ci = 1
    /\ x = <<>>
    /\ sim_params = [k \in ParamKeys |-> NoVal]
    /\ start = Zero
    /\ stop = Zero
    /\ points = 0
    /\ out = <<>>
    /\ results = NoResults

Init == InitWith(GeneralNetlists)
InitDivider == InitWith({nl \in DividerNetlists :
                            /\ nl[1].nodes[1] # nl[2].nodes[2]
                            /\ \E sc \in ResistanceScales :
                                  \A i \in 2..Len(nl) : nl[i].kv[1][2] \in sc})
InitSweep == InitWith(SweepNetlists)

\* solve, lines 10-59: the loop over the lines
Parse ==
    /\ pc = "parse"
    /\ LET parsed == ParseLines(netlist)
       IN  /\ nodes' = parsed[1]
           /\ components' = parsed[2]
           /\ sim_cmd' = parsed[3]
    /\ pc' = "index"
    /\ UNCHANGED <<netlist, err, sorted_nodes, node_map, N, M, G, I, ci, x,
                   mainVars, results>>

\* solve, lines 61-76: the node map, the sources, the zeroed system
BuildNodeMap ==
    /\ pc = "index"
    /\ \E sn \in {SortedNodes(listed) : listed \in ListsOf(nodes)} :
          /\ sorted_nodes' = sn
          /\ node_map' = NodeMapOf(sn)
          /\ N' = Len(sn)
    /\ M' = Len(VSources(components))
    /\ G' = ZeroMatrix(N' + M')
    /\ I' = ZeroVector(N' + M')
    /\ ci' = 1
    /\ pc' = "stamp"
    /\ UNCHANGED <<netlist, err, nodes, components, sim_cmd, x, mainVars, results>>

\* solve, lines 79-114: one pass of the stamping loop; an exception ends the run
StampNext ==
    /\ pc = "stamp"
    /\ ci <= Len(components)
    /\ LET st == Stamp(G, I, components[ci], node_map, N, VSources(components))
       IN  /\ G' = st[1]
           /\ I' = st[2]
           /\ err' = st[3]
           /\ pc' = IF st[3] = "none" THEN "stamp" ELSE "raised"
    /\ ci' = ci + 1
    /\ UNCHANGED <<netlist, nodes, components, sim_cmd, sorted_nodes, node_map,
                   N, M, x, mainVars, results>>

\* solve, lines 118-131: forward elimination
SolveForward ==
    /\ pc = "stamp"
    /\ ci > Len(components)
    /\ LET fw == Forward(G, I, 0, N + M)
       IN  /\ G' = fw[1]
           /\ I' = fw[2]
    /\ x' = ZeroVector(N + M)
    /\ pc' = "backward"
    /\ UNCHANGED <<netlist, err, nodes, components, sim_cmd, sorted_nodes,
                   node_map, N, M, ci, mainVars, results>>

\* solve, lines 134-139: back substitution
SolveBackward ==
    /\ pc = "backward"
    /\ x' = Backward(G, I, x, N + M - 1, N + M)
    /\ pc' = "readsim"
    /\ UNCHANGED <<netlist, err, nodes, components, sim_cmd, sorted_nodes,
                   node_map, N, M, G, I, ci, mainVars, results>>

\* main, lines 158-166: the sweep parameters
ReadSim ==
    /\ pc = "readsim"
    /\ sim_params' = SimParams(netlist)
    /\ start' = FloatOf(Get(sim_params', "Start", "0"))
    /\ stop' = FloatOf(Get(sim_params', "Stop", "10"))
    /\ points' = IntOf(Get(sim_params', "Points", "2"))
    /\ pc' = "encode"
    /\ UNCHANGED <<netlist, err, solveVars, out, results>>

\* main, lines 175-190: the result text
WriteOutput ==
    /\ pc = "encode"
    /\ out' = Encode(sorted_nodes, node_map, x, Get(sim_params, "Param", "sweep"),
                     start, stop, points)
    /\ pc' = "decode"
    /\ UNCHANGED <<netlist, err, solveVars, sim_params, start, stop, points, results>>

\* parse_qucs_dat on the file main wrote
ParseOutput ==
    /\ pc = "decode"
    /\ results' = Decode(out, 1, NoResults)
    /\ pc' = "done"
    /\ UNCHANGED <<netlist, err, solveVars, mainVars>>

Next ==
    \/ Parse
    \/ BuildNodeMap
    \/ StampNext
    \/ SolveForward
    \/ SolveBackward
    \/ ReadSim
    \/ WriteOutput
    \/ ParseOutput

(***************************************************************************)
(* Properties                                                              *)
(***************************************************************************)
\* every stamp has been applied and nothing was raised
Assembled == pc = "stamp" /\ ci > Len(components)

\* solve has returned
Solved == pc \in {"readsim", "encode", "decode", "done"}

\* the divider netlists of SpecDivider: the names and values they are made of
DivA  == netlist[1].nodes[1]
DivB  == netlist[2].nodes[2]
DivU  == FloatOf(netlist[1].kv[1][2])
DivR1 == FloatOf(netlist[2].kv[1][2])
DivR2 == FloatOf(netlist[3].kv[1][2])
Unloaded == Len(netlist) = 2
Loaded   == Len(netlist) = 3

\* C1: for a source U from a to the reference and a resistor from a to a node b
\* with no other connection, solve returns x[a] = U and x[b] = U, for every U,
\* every positive R and both sort orders of a and b.
C1_FloatingNode ==
    (Solved /\ Unloaded) =>
        /\ x[node_map[DivA]] = DivU
        /\ x[node_map[DivB]] = DivU

\* C2: the pipeline never raises on a netlist whose values are numeric literals.
C2_NeverRaises == err = "none"

\* C3: after assembly I[N+k] is the U of the k-th Vdc line, for every k in 0..M-1.
C3_OwnAuxRow ==
    Assembled =>
        \A k \in 0..(M - 1) :
            I[N + k] = FloatOf(Get(VSources(components)[k + 1].params, "U", "1"))

\* C4: the decoder's mapping has, for every free node n, an entry named n whose
\* values are x[index(n)] (as the "%e" text carries it) repeated Points times.
C4_RoundTrip ==
    pc = "done" =>
        \A n \in DOMAIN node_map :
            /\ Codes(n) \in DOMAIN results
            /\ results[Codes(n)] =
                  [i \in 1..points |-> ParseFloat(FormatE(x[node_map[n]]))]

\* the lines of the netlist that are .DC lines, in order
RECURSIVE DCLinesOf(_)
DCLinesOf(lines) ==
    IF lines = <<>> THEN <<>>
    ELSE IF IsDC(lines[1]) THEN <<lines[1]>> \o DCLinesOf(Tail(lines))
    ELSE DCLinesOf(Tail(lines))

\* what the last .DC line alone gives
LastDC == ParamsOf(DCLinesOf(netlist)[Len(DCLinesOf(netlist))].kv)

\* C5: with several .DC lines the Start, Stop, Points and Param the encoder uses
\* are those of the last .DC line, a key that line does not give taking its
\* default and not the value of an earlier .DC line.
C5_LastDCWins ==
    (pc \in {"encode", "decode", "done"} /\ DCLinesOf(netlist) # <<>>) =>
        /\ start = FloatOf(Get(LastDC, "Start", "0"))
        /\ stop = FloatOf(Get(LastDC, "Stop", "10"))
        /\ points = IntOf(Get(LastDC, "Points", "2"))
        /\ Get(sim_params, "Param", "sweep") = Get(LastDC, "Param", "sweep")

\* the node tokens of the component lines of a netlist, less the reference
FreeTokens(lines) ==
    UNION {Range(lines[i].nodes) : i \in {j \in DOMAIN lines : IsComponent(lines[j])}}
    \ {"0", "gnd"}

\* C6: the node map is a bijection from the free node set onto 0..N-1 that
\* assigns indices in ascending string order; it is a function of the set of
\* node tokens alone (the index of a node is the number of free nodes below it).
C6_NodeMapBijection ==
    pc \notin {"parse", "index"} =>
        LET free == FreeTokens(netlist)
        IN  /\ DOMAIN node_map = free
            /\ N = Cardinality(free)
            /\ {node_map[n] : n \in free} = 0..(N - 1)
            /\ \A n \in free :
                  node_map[n] = Cardinality({m \in free : StrLess(m, n)})

\* C6 witness: three free nodes met in an order that is not the sorted one,
\* beside a reference node
C6_Witness ==
    /\ pc = "stamp"
    /\ N >= 3
    /\ "0" \in nodes
    /\ \E i \in DOMAIN components :
          /\ Len(components[i].nodes) >= 2
          /\ ~IsRef(components[i].nodes[1])
          /\ ~IsRef(components[i].nodes[2])
          /\ node_map[components[i].nodes[1]] > node_map[components[i].nodes[2]]

\* only R and Vdc components, two node tokens each
OnlyRV2 ==
    \A i \in DOMAIN components :
        /\ components[i].type \in {"R", "Vdc"}
        /\ Len(components[i].nodes) = 2

\* C7: with only R and Vdc components of two node tokens each, G is symmetric
\* after every stamp (so also once assembly is complete).
C7_Symmetric ==
    (pc \in {"stamp", "raised"} /\ OnlyRV2) =>
        \A i, j \in 0..(N + M - 1) : G[i][j] = G[j][i]

\* C7 witness: assembly complete with a resistor and a source stamped, and a
\* nonzero entry off the diagonal
C7_Witness ==
    /\ Assembled
    /\ OnlyRV2
    /\ \E i, j \in DOMAIN components :
          components[i].type = "R" /\ components[j].type = "Vdc"
    /\ \E i, j \in 0..(N - 1) : i # j /\ G[i][j] # Zero
    /\ \E i \in 0..(N - 1), k \in N..(N + M - 1) : G[i][k] # Zero

\* every pivot of the divider's elimination clears the 1e-12 tolerance:
\* 1e-12 < R1 + R2 < 1e12
DivInTolerance ==
    /\ AboveTol(Add(DivR1, DivR2))
    /\ AboveTol(Div(FromInt(1), Add(DivR1, DivR2)))

DivExpected == Div(Mul(DivU, DivR2), Add(DivR1, DivR2))

IndepWritten == SubSeq(out, 2, FirstClose(out, "indep", 1) - 1)

\* the i-th value (from 0) of the sweep from start to stop
SweepValue(i) ==
    IF points > 1
    THEN Add(start, Div(Mul(FromInt(i), Sub(stop, start)), FromInt(points - 1)))
    ELSE start

\* the values of the indep block are those of the sweep, the first being start
\* and, when points > 1, the last being stop
IndepIsSweep ==
    /\ \A i \in DOMAIN IndepWritten :
          IndepWritten[i] = ValueLine(FormatE(SweepValue(i - 1)))
    /\ IndepWritten # <<>> => IndepWritten[1] = ValueLine(FormatE(start))
    /\ points > 1 => IndepWritten[Len(IndepWritten)] = ValueLine(FormatE(stop))

WithoutAt(sq, p) == SubSeq(sq, 1, p - 1) \o SubSeq(sq, p + 1, Len(sq))

\* the node tokens of a sequence of components
NodesOf(comps) == UNION {Range(comps[i].nodes) : i \in DOMAIN comps}

\* the stamping loop over comps from the k-th on, up to the first exception
RECURSIVE StampAll(_, _, _, _, _, _)
StampAll(g, i, comps, k, nmap, n) ==
    IF k > Len(comps) THEN <<g, i, "none">>
    ELSE LET st == Stamp(g, i, comps[k], nmap, n, VSources(comps))
         IN  IF st[3] # "none" THEN st
             ELSE StampAll(st[1], st[2], comps, k + 1, nmap, n)

\* the node map and the assembled system of the netlist with components comps
AssemblyOf(comps) ==
    LET sn == SortedNodes(CHOOSE l \in ListsOf(NodesOf(comps)) : TRUE)
        n  == Len(sn)
        m  == Len(VSources(comps))
    IN  [sorted_nodes |-> sn, N |-> n, M |-> m,
         sys |-> StampAll(ZeroMatrix(n + m), ZeroVector(n + m), comps, 1,
                          NodeMapOf(sn), n)]

\* the stamping loop of the run has ended, by an exception or not
StampingOver == pc = "raised" \/ Assembled

\* C10: a component line of a type other than R and Vdc applies no stamp and
\* raises nothing: G and I are those of the netlist without the line, with
\* all-zero rows, columns and entries for the free nodes only that line names.
C10_UnknownTypeNoStamp ==
    StampingOver =>
        \A p \in DOMAIN components :
            components[p].type \notin {"R", "Vdc"} =>
                LET r      == AssemblyOf(WithoutAt(components, p))
                    at(i)  == IF i < r.N THEN node_map[r.sorted_nodes[i + 1]]
                              ELSE N + (i - r.N)
                    old    == 0..(r.N + r.M - 1)
                    fresh  == (0..(N + M - 1)) \ {at(i) : i \in old}
                IN  /\ err = r.sys[3]
                    /\ M = r.M
                    /\ err = "none" =>
                          /\ \A i, j \in old : G[at(i)][at(j)] = r.sys[1][i][j]
                          /\ \A i \in old : I[at(i)] = r.sys[2][i]
                          /\ \A i \in fresh :
                                /\ I[i] = Zero
                                /\ \A j \in 0..(N + M - 1) :
                                      G[i][j] = Zero /\ G[j][i] = Zero

\* C10 witness: assembly complete, a line of another type naming a free node
\* no other line names, which sorts before a node with a stamped diagonal
C10_Witness ==
    /\ Assembled
    /\ \E p \in DOMAIN components :
          /\ components[p].type \notin {"R", "Vdc"}
          /\ \E n \in Range(components[p].nodes)
                      \ (NodesOf(WithoutAt(components, p)) \cup {"0", "gnd"}) :
                \E m \in DOMAIN node_map :
                    /\ node_map[n] < node_map[m]
                    /\ G[node_map[m]][node_map[m]] # Zero

Spec == Init /\ [][Next]_vars
SpecDivider == InitDivider /\ [][Next]_vars
SpecSweep == InitSweep /\ [][Next]_vars

====
